---------------------------- MODULE Spec2Model ----------------------------
(***************************************************************************)
(* A model of the InfoSynth retrieval core: the chunker (chunk_text), the  *)
(* chunk cache (Retriever.load_and_chunk_files), the hybrid ranker         *)
(* (Retriever.__init__ / Retriever.search) and the two-pass feedback       *)
(* controller (feedback_loop_rag).                                         *)
(*                                                                         *)
(* Strings are sequences of tokens: a word is a positive number, SP is a   *)
(* blank and COMMA a comma.  Scores are exact rationals                    *)
(* <<numerator, denominator>> with a positive denominator; floating-point  *)
(* rounding is not modelled.                                               *)
(***************************************************************************)
EXTENDS Integers, Sequences, FiniteSets, TLC

VARIABLES
    \* chunk_text: its arguments, its position and its result
    paragraphs, chunk_size, overlap, chunks, cpc,
    \* load_and_chunk_files: the file system, the record mapping (library),
    \* the backing store, and what the last call returned and did
    fs, clock, library, store, all_chunks, all_sources, updated, rechunked,
    \* history of the calls: their number, the files written since the last
    \* call, and what the last call started from
    calls, dirty, written, seen_written, quiet, prev_chunks, prev_library,
    \* Retriever: the fields __init__ sets, the position of the object
    \* (rpc), and the locals and the result of the last search
    documents, doc_paths, max_results, rpc, searches,
    tfidf_similarities, bm25_scores, max_tfidf, max_bm25, tfidf_norm,
    bm25_norm, combined_scores, ranked_indices, results,
    \* feedback_loop_rag: its arguments, its position (lpc), its locals,
    \* the calls it has made to its collaborators (trace) and what it
    \* returned (ret)
    query, previous_queries, search_web, lpc, expanded_query,
    initial_results, first_answer, keywords, refined_query,
    refined_results, final_answer, trace, ret

chunkVars == <<paragraphs, chunk_size, overlap, chunks, cpc>>
cacheVars == <<fs, clock, library, store, all_chunks, all_sources, updated,
               rechunked, calls, dirty, written, seen_written, quiet,
               prev_chunks, prev_library>>
searchVars == <<documents, doc_paths, max_results, rpc, searches,
                tfidf_similarities, bm25_scores, max_tfidf, max_bm25,
                tfidf_norm, bm25_norm, combined_scores, ranked_indices,
                results>>
loopVars == <<query, previous_queries, search_web, lpc, expanded_query,
              initial_results, first_answer, keywords, refined_query,
              refined_results, final_answer, trace, ret>>
vars == <<chunkVars, cacheVars, searchVars, loopVars>>

-----------------------------------------------------------------------------
(* Bounds of the model.                                                    *)

MaxParas == 3
MaxParaLen == 3
MaxChunkSize == 3
MaxClock == 2
MaxCalls == 2
MaxDocs == 3
MaxResults == 3
MaxSearches == 1
MaxWeight == 1
MaxTfidf == 1
MaxBm25 == 1

-----------------------------------------------------------------------------
(* Strings of words.                                                       *)

SP == 0
COMMA == -1

\* " ".join(words)
JoinWords(ws) ==
    IF Len(ws) = 0 THEN <<>>
    ELSE [i \in 1..(2 * Len(ws) - 1) |->
             IF i % 2 = 1 THEN ws[(i + 1) \div 2] ELSE SP]

IsWord(t) == t # SP

\* str.split() of a string of words and blanks
SplitWords(s) == SelectSeq(s, IsWord)

\* lst[-k:] for k > 0: the last k elements, the whole list when it is shorter
LastN(lst, k) ==
    IF Len(lst) <= k THEN lst ELSE SubSeq(lst, Len(lst) - k + 1, Len(lst))

-----------------------------------------------------------------------------
(* chunk_text.  `paras` is the list the code calls paragraphs after its    *)
(* split on line breaks, each one already split into words (para.split()); *)
(* a paragraph with no word models the `continue` of the loop.             *)

RECURSIVE ChunkLoop(_, _, _, _, _, _, _)
ChunkLoop(paras, i, acc, current_chunk, current_length, size, ovl) ==
    IF i > Len(paras)
    THEN IF current_chunk # <<>>
         THEN Append(acc, JoinWords(current_chunk))
         ELSE acc
    ELSE LET para_words == paras[i] IN
         IF para_words = <<>>
         THEN ChunkLoop(paras, i + 1, acc, current_chunk, current_length,
                        size, ovl)
         ELSE IF current_length + Len(para_words) <= size
         THEN ChunkLoop(paras, i + 1, acc, current_chunk \o para_words,
                        current_length + Len(para_words), size, ovl)
         ELSE LET overlap_words ==
                      IF ovl > 0 THEN LastN(current_chunk, ovl) ELSE <<>>
                  next_chunk == overlap_words \o para_words
              IN  ChunkLoop(paras, i + 1,
                            Append(acc, JoinWords(current_chunk)),
                            next_chunk, Len(next_chunk), size, ovl)

ChunkText(paras, size, ovl) == ChunkLoop(paras, 1, <<>>, <<>>, 0, size, ovl)

-----------------------------------------------------------------------------
(* The chunker on its own: the arguments are drawn in InitChunk, the call  *)
(* is one action.  A document is given by the lengths of its paragraphs;   *)
(* its words are numbered 1, 2, ... in reading order, so that a lost, a    *)
(* repeated or a misplaced word shows.                                     *)

RECURSIVE SumLens(_)
SumLens(lens) ==
    IF lens = <<>> THEN 0 ELSE lens[1] + SumLens(Tail(lens))

\* the paragraphs of the document whose paragraph lengths are `lens`
DocOf(lens) ==
    [p \in 1..Len(lens) |->
        [w \in 1..lens[p] |-> SumLens(SubSeq(lens, 1, p - 1)) + w]]

RECURSIVE Flatten(_)
Flatten(seqs) ==
    IF seqs = <<>> THEN <<>> ELSE seqs[1] \o Flatten(Tail(seqs))

LenSeqs == UNION {[1..n -> 0..MaxParaLen] : n \in 0..MaxParas}

idleChunk ==
    /\ paragraphs = <<>>
    /\ chunk_size = 1
    /\ overlap = 0
    /\ chunks = <<>>
    /\ cpc = "idle"

InitChunkArgs ==
    /\ paragraphs \in {DocOf(lens) : lens \in LenSeqs}
    /\ chunk_size \in 1..MaxChunkSize
    /\ overlap \in 0..(chunk_size - 1)
    /\ chunks = <<>>
    /\ cpc = "ready"

CallChunkText ==
    /\ cpc = "ready"
    /\ chunks' = ChunkText(paragraphs, chunk_size, overlap)
    /\ cpc' = "done"
    /\ UNCHANGED <<paragraphs, chunk_size, overlap>>

-----------------------------------------------------------------------------
(* The chunk cache.                                                        *)

DEFAULT_CHUNK_SIZE == 500
DEFAULT_OVERLAP == 50

Range(a, b) == [i \in 1..(b - a + 1) |-> a + i - 1]

\* What read_text extracts from a file, as paragraphs of words: nothing
\* (an empty or unreadable file), one short paragraph, and two paragraphs
\* of 300 and 250 words, which chunk_text cuts into two chunks.
Docs == << <<>>,
           << <<1, 2>> >>,
           << Range(1, 300), Range(301, 550) >> >>
DocIds == 1..Len(Docs)

\* the bytes of a document: six per word
SizeOf(d) == 6 * Len(Flatten(Docs[d]))

read_text(file) == Docs[fs[file].doc]

read_and_chunk_file(file) ==
    ChunkText(read_text(file), DEFAULT_CHUNK_SIZE, DEFAULT_OVERLAP)

\* dict assignment rec[field] = val
Put(rec, field, val) ==
    [x \in (DOMAIN rec) \cup {field} |-> IF x = field THEN val ELSE rec[x]]

\* file_meta.get("last_modified"): -1 stands for None
GetLastModified(file_meta) ==
    IF "last_modified" \in DOMAIN file_meta
    THEN file_meta["last_modified"] ELSE -1

\* needs_chunking without the comparison of the modification times
needs_chunking_no_mtime(file_meta, current_mtime) ==
    \/ "chunks" \notin DOMAIN file_meta
    \/ file_meta["chunks"] = <<>>

needs_chunking(file_meta, current_mtime) ==
    \/ "chunks" \notin DOMAIN file_meta
    \/ file_meta["chunks"] = <<>>
    \/ GetLastModified(file_meta) # current_mtime

\* Path.resolve(): the absolute form of the path
Resolve(path) == [path EXCEPT !.resolved = TRUE]

\* round(st_size / 1024, 2), in hundredths of a KB
SizeKb(size) == (size * 200 + 1024) \div 2048

\* datetime.fromtimestamp(t).isoformat()
IsoFormat(t) == <<"iso", t>>

\* [str(file_path)] * len(chunks)
Repeat(x, n) == [i \in 1..n |-> x]

\* the source path added once for the file, not once per chunk
SourcesOf_once(file_path, file_chunks) == <<file_path>>

SourcesOf(file_path, file_chunks) == Repeat(file_path, Len(file_chunks))

\* the record after one pass of the loop body for an existing file
UpdatedMeta(file_meta, doRechunk) ==
    LET file_path == file_meta["file_path"]
        info == fs[file_path.file]
        m1 == IF doRechunk
              THEN LET cs == read_and_chunk_file(file_path.file) IN
                   Put(Put(Put(file_meta, "chunks", cs),
                           "num_chunks", Len(cs)),
                       "last_modified", info.mtime)
              ELSE file_meta
    IN  Put(Put(Put(Put(m1, "file_name", file_path.file),
                    "file_path", Resolve(file_path)),
                "size_kb", SizeKb(info.size)),
            "created_at", IsoFormat(info.ctime))

\* list(library.keys()): the file names, in the order of the mapping
LibraryKeys == <<"a.txt", "b.txt">>
Files == {LibraryKeys[i] : i \in 1..Len(LibraryKeys)}

RECURSIVE LoadLoop(_, _, _, _, _, _)
LoadLoop(lib, i, ac, as, upd, rech) ==
    IF i > Len(LibraryKeys)
    THEN [library |-> lib, all_chunks |-> ac, all_sources |-> as,
          updated |-> upd, rechunked |-> rech]
    ELSE LET file_name == LibraryKeys[i]
             file_meta == lib[file_name]
             file_path == file_meta["file_path"]
         IN  IF ~fs[file_path.file].exists
             THEN LoadLoop(lib, i + 1, ac, as, upd, rech)
             ELSE LET re == needs_chunking(file_meta,
                                           fs[file_path.file].mtime)
                      meta2 == UpdatedMeta(file_meta, re)
                      cs == meta2["chunks"]
                  IN  LoadLoop([lib EXCEPT ![file_name] = meta2], i + 1,
                               ac \o cs,
                               as \o SourcesOf(file_path, cs),
                               upd \/ re,
                               IF re THEN rech \cup {file_name} ELSE rech)

\* json.dump(library, f): the store holds what was written
Persist(upd, lib, old) == IF upd THEN lib ELSE old

load_and_chunk_files ==
    /\ calls < MaxCalls
    /\ LET r == LoadLoop(library, 1, <<>>, <<>>, FALSE, {}) IN
         /\ library' = r.library
         /\ all_chunks' = r.all_chunks
         /\ all_sources' = r.all_sources
         /\ updated' = r.updated
         /\ rechunked' = r.rechunked
         /\ store' = Persist(r.updated, r.library, store)
    /\ calls' = calls + 1
    /\ quiet' = (calls >= 1 /\ ~dirty)
    /\ dirty' = FALSE
    /\ seen_written' = written
    /\ written' = {}
    /\ prev_chunks' = all_chunks
    /\ prev_library' = library
    /\ UNCHANGED <<fs, clock>>

\* The file system between two calls: a file is written (its content, its
\* size and both its times change), its inode is changed without a write
\* (chmod, rename: st_ctime alone changes), or it is removed.  The clock
\* ticks at each of these events and gives the times.
WriteFile(f, d) ==
    /\ clock < MaxClock
    /\ clock' = clock + 1
    /\ fs' = [fs EXCEPT ![f] = [exists |-> TRUE, doc |-> d,
                                size |-> SizeOf(d), mtime |-> clock + 1,
                                ctime |-> clock + 1]]
    /\ written' = written \cup {f}
    /\ dirty' = TRUE
    /\ UNCHANGED <<library, store, all_chunks, all_sources, updated,
                   rechunked, calls, seen_written, quiet, prev_chunks,
                   prev_library>>

ChangeInode(f) ==
    /\ clock < MaxClock
    /\ fs[f].exists
    /\ clock' = clock + 1
    /\ fs' = [fs EXCEPT ![f].ctime = clock + 1]
    /\ dirty' = TRUE
    /\ UNCHANGED <<library, store, all_chunks, all_sources, updated,
                   rechunked, calls, written, seen_written, quiet,
                   prev_chunks, prev_library>>

RemoveFile(f) ==
    /\ clock < MaxClock
    /\ fs[f].exists
    /\ clock' = clock + 1
    /\ fs' = [fs EXCEPT ![f].exists = FALSE]
    /\ written' = written \cup {f}
    /\ dirty' = TRUE
    /\ UNCHANGED <<library, store, all_chunks, all_sources, updated,
                   rechunked, calls, seen_written, quiet, prev_chunks,
                   prev_library>>

NoFile == [exists |-> FALSE, doc |-> 1, size |-> 0, mtime |-> 0, ctime |-> 0]

FileAtStart(d) ==
    [exists |-> TRUE, doc |-> d, size |-> SizeOf(d), mtime |-> 0, ctime |-> 0]

\* A library of newly tracked files: each record holds its path (the
\* first as given, the second already absolute) and no chunks yet; the
\* store holds the same.  The first file is missing or holds any of the
\* documents, the others hold the short one.
InitCacheState ==
    /\ \E first \in {NoFile} \cup {FileAtStart(d) : d \in DocIds} :
           fs = [k \in Files |->
                    IF k = LibraryKeys[1] THEN first ELSE FileAtStart(2)]
    /\ clock = 0
    /\ library = [k \in Files |->
                     [file_path |-> [file |-> k,
                                     resolved |-> (k # LibraryKeys[1])]]]
    /\ store = library
    /\ all_chunks = <<>>
    /\ all_sources = <<>>
    /\ updated = FALSE
    /\ rechunked = {}
    /\ calls = 0
    /\ dirty = FALSE
    /\ written = {}
    /\ seen_written = {}
    /\ quiet = FALSE
    /\ prev_chunks = <<>>
    /\ prev_library = library

idleCache ==
    /\ fs = [k \in Files |-> NoFile]
    /\ clock = 0
    /\ library = [k \in Files |->
                     [file_path |-> [file |-> k, resolved |-> TRUE]]]
    /\ store = library
    /\ all_chunks = <<>>
    /\ all_sources = <<>>
    /\ updated = FALSE
    /\ rechunked = {}
    /\ calls = 0
    /\ dirty = FALSE
    /\ written = {}
    /\ seen_written = {}
    /\ quiet = FALSE
    /\ prev_chunks = <<>>
    /\ prev_library = library

-----------------------------------------------------------------------------
(* The hybrid ranker.  A chunk is named by a positive number and a source  *)
(* path by a negative one.  A query is what the collaborators make of it:  *)
(* the classifier's two weights and the two raw score vectors.             *)

ChunkNames == 1..MaxDocs
PathNames == {-i : i \in 1..MaxDocs}

\* the lists of length 0..MaxDocs whose i-th entry is the i-th name
DocLists == {[i \in 1..n |-> i] : n \in 0..MaxDocs}
PathLists == {[i \in 1..n |-> -i] : n \in 0..MaxDocs}

\* cosine similarities of term-frequency vectors are not negative
TfidfVals == 0..MaxTfidf

\* BM25Okapi replaces a negative idf by epsilon * average_idf, and the
\* average is negative when most terms occur in more than half of the
\* chunks (in a corpus of one chunk, every term): get_scores then returns
\* negative scores.
Bm25Vals == -1..MaxBm25

WeightVals == 0..MaxWeight

SeqMax(v) == CHOOSE x \in {v[i] : i \in DOMAIN v} :
                 \A i \in DOMAIN v : v[i] <= x

\* max(v) if max(v) > 0 else 1
NormDivisor(v) == IF SeqMax(v) > 0 THEN SeqMax(v) ELSE 1

\* v / d, each entry a rational
Normalize(v, d) == [i \in DOMAIN v |-> <<v[i], d>>]

\* (dense_weight * tfidf_norm) + (sparse_weight * bm25_norm)
Combine(dense_weight, tn, sparse_weight, bn) ==
    [i \in DOMAIN tn |->
        <<dense_weight * tn[i][1] * bn[i][2]
              + sparse_weight * bn[i][1] * tn[i][2],
          tn[i][2] * bn[i][2]>>]

RatLess(a, b) == a[1] * b[2] < b[1] * a[2]
RatLeq(a, b) == a[1] * b[2] <= b[1] * a[2]

\* numpy.argsort with its default kind: the orders that sort the scores
\* ascending; the order of equal scores is whatever the sort makes it
ArgSorts(scores) ==
    {p \in Permutations(DOMAIN scores) :
        \A i, j \in DOMAIN scores :
            i < j => RatLeq(scores[p[i]], scores[p[j]])}

Reverse(s) == [i \in 1..Len(s) |-> s[Len(s) + 1 - i]]

Min2(a, b) == IF a <= b THEN a ELSE b

\* lst[:k] for k >= 0
FirstN(lst, k) == SubSeq(lst, 1, Min2(k, Len(lst)))

\* combined_scores.argsort()[::-1][:self.max_results]
RankedIndices(order, k) == FirstN(Reverse(order), k)

ResultTuple(idx, docs, paths, comb, tf, bm) ==
    [doc |-> docs[idx], path |-> paths[idx], score |-> comb[idx],
     meta |-> [combined_score |-> comb[idx], tfidf_score |-> tf[idx],
               bm25_score |-> bm[idx]]]

idleSearch ==
    /\ documents = <<>>
    /\ doc_paths = <<>>
    /\ max_results = 0
    /\ rpc = "none"
    /\ searches = 0
    /\ tfidf_similarities = <<>>
    /\ bm25_scores = <<>>
    /\ max_tfidf = 1
    /\ max_bm25 = 1
    /\ tfidf_norm = <<>>
    /\ bm25_norm = <<>>
    /\ combined_scores = <<>>
    /\ ranked_indices = <<>>
    /\ results = <<>>

searchLocals == <<tfidf_similarities, bm25_scores, max_tfidf, max_bm25,
                  tfidf_norm, bm25_norm, combined_scores, ranked_indices,
                  results>>

\* Retriever.__init__: the fields are set and the two indices built.  No
\* line compares len(documents) with len(doc_paths).  TfidfVectorizer and
\* BM25Okapi are library code: over a corpus with no chunk they may build
\* or raise, and both outcomes are kept.
BuildOutcomes(docs) ==
    IF docs = <<>> THEN {"built", "build_error"} ELSE {"built"}

Retriever_init(docs, paths, k) ==
    /\ rpc = "none"
    /\ documents' = docs
    /\ doc_paths' = paths
    /\ max_results' = k
    /\ rpc' \in BuildOutcomes(docs)
    /\ UNCHANGED <<searches, searchLocals>>

\* Retriever.search on a corpus with no chunk: max() of an empty sequence
\* raises ValueError at the first normalisation line.
SearchEmpty ==
    /\ rpc \in {"built", "searched"}
    /\ searches < MaxSearches
    /\ documents = <<>>
    /\ rpc' = "search_error"
    /\ searches' = searches + 1
    /\ UNCHANGED <<documents, doc_paths, max_results, searchLocals>>

\* some ranked index is past the end of the source-path list
IndexOutOfRange(ranked, paths) ==
    \E r \in 1..Len(ranked) : ranked[r] > Len(paths)

\* One search: the query's weights and raw scores are drawn here.
SearchWith(tf, bm, dense_weight, sparse_weight) ==
    LET mt == NormDivisor(tf)
        mb == NormDivisor(bm)
        tn == Normalize(tf, mt)
        bn == Normalize(bm, mb)
        comb == Combine(dense_weight, tn, sparse_weight, bn)
    IN  \E order \in ArgSorts(comb) :
          LET ranked == RankedIndices(order, max_results) IN
            /\ tfidf_similarities' = tf
            /\ bm25_scores' = bm
            /\ max_tfidf' = mt
            /\ max_bm25' = mb
            /\ tfidf_norm' = tn
            /\ bm25_norm' = bn
            /\ combined_scores' = comb
            /\ ranked_indices' = ranked
            /\ IF IndexOutOfRange(ranked, doc_paths)
               THEN \* self.doc_paths[idx] raises IndexError
                    /\ rpc' = "search_error"
                    /\ results' = <<>>
               ELSE /\ rpc' = "searched"
                    /\ results' =
                           [r \in 1..Len(ranked) |->
                               ResultTuple(ranked[r], documents, doc_paths,
                                           comb, tf, bm)]

Search ==
    /\ rpc \in {"built", "searched"}
    /\ searches < MaxSearches
    /\ documents # <<>>
    /\ searches' = searches + 1
    /\ \E tf \in [DOMAIN documents -> TfidfVals],
          bm \in [DOMAIN documents -> Bm25Vals],
          dw \in WeightVals, sw \in WeightVals :
           SearchWith(tf, bm, dw, sw)
    /\ UNCHANGED <<documents, doc_paths, max_results>>

-----------------------------------------------------------------------------
(* The feedback controller.  A text is a sequence of words, blanks and     *)
(* commas.  The language model and the retriever are collaborators: what   *)
(* they answer is drawn from small sets.                                   *)

RECURSIVE StripLeft(_)
StripLeft(t) ==
    IF t # <<>> /\ Head(t) = SP THEN StripLeft(Tail(t)) ELSE t

\* str.strip()
Strip(t) == Reverse(StripLeft(Reverse(StripLeft(t))))

\* str.split(","): the pieces between the commas, at least one
RECURSIVE SplitComma(_, _)
SplitComma(t, piece) ==
    IF t = <<>> THEN <<piece>>
    ELSE IF Head(t) = COMMA THEN <<piece>> \o SplitComma(Tail(t), <<>>)
    ELSE SplitComma(Tail(t), Append(piece, Head(t)))

\* " ".join(texts)
RECURSIVE JoinTexts(_)
JoinTexts(ts) ==
    IF ts = <<>> THEN <<>>
    ELSE IF Len(ts) = 1 THEN ts[1]
    ELSE ts[1] \o <<SP>> \o JoinTexts(Tail(ts))

\* what model.generate_content(prompt).text may be: nothing, a word, a
\* list of two keywords with blanks around them
ModelTexts == {<<>>, <<1>>, <<SP, 1, COMMA, SP, 2, SP>>}

\* the failure string get_llm_help and generate_answer return when the
\* model raises
ErrorText == <<7, SP, 8>>

\* the fixed string generate_answer returns without asking the model
NoContentText == <<9>>

\* get_llm_help(prompt): the stripped text of the model, or the failure
\* string
LlmOutputs == {Strip(t) : t \in ModelTexts} \cup {ErrorText}

\* generate_answer(query, chunks, scores, search_web)
AnswerOutputs(cs, web) ==
    IF cs = <<>> /\ ~web THEN {NoContentText} ELSE LlmOutputs

\* [kw.strip() for kw in keywords_text.split(",")]
KeywordsOf(keywords_text) ==
    LET pieces == SplitComma(keywords_text, <<>>) IN
    [i \in 1..Len(pieces) |-> Strip(pieces[i])]

\* what retriever.search(q) may return: (doc, path, combined, meta) tuples
Hit(d, b) == [doc |-> <<d>>, path |-> -d, score |-> <<1, 1>>,
              meta |-> [bm25_score |-> b]]
SearchOutputs == {<<>>, <<Hit(1, 2)>>, <<Hit(2, 1), Hit(1, 0)>>}

\* [doc for doc, _, _, _ in results]
DocsOf(res) == [i \in 1..Len(res) |-> res[i].doc]

\* [meta["bm25_score"] for _, _, _, meta in results]
ScoresOf(res) == [i \in 1..Len(res) |-> res[i].meta.bm25_score]

\* [(doc, path, meta["bm25_score"]) for doc, path, _, meta in results]
SourcesFor(res) ==
    [i \in 1..Len(res) |-> <<res[i].doc, res[i].path, res[i].meta.bm25_score>>]

Call(op, arg) == [op |-> op, arg |-> arg]

Queries == {<<>>, <<3>>}
PreviousQueries == {<<>>, << <<4>> >>}

idleLoop ==
    /\ query = <<>>
    /\ previous_queries = <<>>
    /\ search_web = FALSE
    /\ lpc = "idle"
    /\ expanded_query = <<>>
    /\ initial_results = <<>>
    /\ first_answer = <<>>
    /\ keywords = <<>>
    /\ refined_query = <<>>
    /\ refined_results = <<>>
    /\ final_answer = <<>>
    /\ trace = <<>>
    /\ ret = <<>>

InitLoopArgs ==
    /\ query \in Queries
    /\ previous_queries \in PreviousQueries
    /\ search_web \in BOOLEAN
    /\ lpc = "expand"
    /\ expanded_query = <<>>
    /\ initial_results = <<>>
    /\ first_answer = <<>>
    /\ keywords = <<>>
    /\ refined_query = <<>>
    /\ refined_results = <<>>
    /\ final_answer = <<>>
    /\ trace = <<>>
    /\ ret = <<>>

loopArgs == <<query, previous_queries, search_web>>

\* Step 1: expanded_query = llm_query_expansion(query, previous_queries)
ExpandQuery ==
    /\ lpc = "expand"
    /\ expanded_query' \in LlmOutputs
    /\ trace' = Append(trace, Call("expand", <<query, previous_queries>>))
    /\ lpc' = "search1"
    /\ UNCHANGED <<loopArgs, initial_results, first_answer, keywords,
                   refined_query, refined_results, final_answer, ret>>

\* the query the first search is given
FirstSearchQuery == expanded_query

\* Step 2: initial_results = retriever.search(expanded_query)
FirstSearch ==
    /\ lpc = "search1"
    /\ initial_results' \in SearchOutputs
    /\ trace' = Append(trace, Call("search", FirstSearchQuery))
    /\ lpc' = "answer1"
    /\ UNCHANGED <<loopArgs, expanded_query, first_answer, keywords,
                   refined_query, refined_results, final_answer, ret>>

\* Step 3: first_answer = generate_answer(query, chunks, scores, search_web)
FirstAnswer ==
    /\ lpc = "answer1"
    /\ first_answer' \in AnswerOutputs(DocsOf(initial_results), search_web)
    /\ trace' = Append(trace, Call("answer",
                   <<query, DocsOf(initial_results),
                     ScoresOf(initial_results), search_web>>))
    /\ lpc' = "keywords"
    /\ UNCHANGED <<loopArgs, expanded_query, initial_results, keywords,
                   refined_query, refined_results, final_answer, ret>>

\* Step 4: keywords = extract_keywords_from_answer(first_answer);
\*         refined_query = " ".join(keywords)
ExtractKeywords ==
    /\ lpc = "keywords"
    /\ \E keywords_text \in LlmOutputs :
           /\ keywords' = KeywordsOf(keywords_text)
           /\ refined_query' = JoinTexts(KeywordsOf(keywords_text))
    /\ trace' = Append(trace, Call("keywords", first_answer))
    /\ lpc' = "search2"
    /\ UNCHANGED <<loopArgs, expanded_query, initial_results, first_answer,
                   refined_results, final_answer, ret>>

\* the second search given the expanded query again
SecondSearchQuery_expanded == expanded_query

\* the query the second search is given
SecondSearchQuery == refined_query

\* Step 5: refined_results = retriever.search(refined_query)
SecondSearch ==
    /\ lpc = "search2"
    /\ refined_results' \in SearchOutputs
    /\ trace' = Append(trace, Call("search", SecondSearchQuery))
    /\ lpc' = "answer2"
    /\ UNCHANGED <<loopArgs, expanded_query, initial_results, first_answer,
                   keywords, refined_query, final_answer, ret>>

\* Step 6: final_answer = generate_answer(query, refined_chunks,
\*                                        refined_scores, search_web)
FinalAnswer ==
    /\ lpc = "answer2"
    /\ final_answer' \in AnswerOutputs(DocsOf(refined_results), search_web)
    /\ trace' = Append(trace, Call("answer",
                   <<query, DocsOf(refined_results),
                     ScoresOf(refined_results), search_web>>))
    /\ lpc' = "return"
    /\ UNCHANGED <<loopArgs, expanded_query, initial_results, first_answer,
                   keywords, refined_query, refined_results, ret>>

\* the dict the function returns
ReturnValue ==
    [final_answer |-> final_answer,
     initial_sources |-> SourcesFor(initial_results),
     refined_sources |-> SourcesFor(refined_results)]

Return ==
    /\ lpc = "return"
    /\ ret' = ReturnValue
    /\ lpc' = "done"
    /\ UNCHANGED <<loopArgs, expanded_query, initial_results, first_answer,
                   keywords, refined_query, refined_results, final_answer,
                   trace>>

-----------------------------------------------------------------------------
(* Specifications.                                                         *)

InitChunk == InitChunkArgs /\ idleCache /\ idleSearch /\ idleLoop
NextChunk == CallChunkText /\ UNCHANGED <<cacheVars, searchVars, loopVars>>
SpecChunk == InitChunk /\ [][NextChunk]_vars

cacheIdle == <<chunkVars, searchVars, loopVars>>
InitCache == InitCacheState /\ idleChunk /\ idleSearch /\ idleLoop
NextCache ==
    \/ load_and_chunk_files /\ UNCHANGED cacheIdle
    \/ \E f \in Files, d \in DocIds : WriteFile(f, d) /\ UNCHANGED cacheIdle
    \/ \E f \in Files : ChangeInode(f) /\ UNCHANGED cacheIdle
    \/ \E f \in Files : RemoveFile(f) /\ UNCHANGED cacheIdle
SpecCache == InitCache /\ [][NextCache]_vars

searchIdle == <<chunkVars, cacheVars, loopVars>>
InitSearch == idleSearch /\ idleChunk /\ idleCache /\ idleLoop
NextSearch ==
    \/ \E docs \in DocLists, paths \in PathLists, k \in 1..MaxResults :
           Retriever_init(docs, paths, k) /\ UNCHANGED searchIdle
    \/ SearchEmpty /\ UNCHANGED searchIdle
    \/ Search /\ UNCHANGED searchIdle
SpecSearch == InitSearch /\ [][NextSearch]_vars

loopIdle == <<chunkVars, cacheVars, searchVars>>
InitLoop == InitLoopArgs /\ idleChunk /\ idleCache /\ idleSearch
NextLoop ==
    \/ ExpandQuery /\ UNCHANGED loopIdle
    \/ FirstSearch /\ UNCHANGED loopIdle
    \/ FirstAnswer /\ UNCHANGED loopIdle
    \/ ExtractKeywords /\ UNCHANGED loopIdle
    \/ SecondSearch /\ UNCHANGED loopIdle
    \/ FinalAnswer /\ UNCHANGED loopIdle
    \/ Return /\ UNCHANGED loopIdle
SpecLoop == InitLoop /\ [][NextLoop]_vars


-----------------------------------------------------------------------------
(* Properties of the chunker.                                              *)

\* a chunk's words, the first `ovl` of them left out
WithoutOverlap(chunk, ovl) ==
    LET ws == SplitWords(chunk) IN SubSeq(ws, ovl + 1, Len(ws))

\* the first chunk whole, every later one without its overlap
Reconstruct(cs, ovl) ==
    IF cs = <<>> THEN <<>>
    ELSE SplitWords(cs[1])
         \o Flatten([i \in 1..(Len(cs) - 1) |-> WithoutOverlap(cs[i + 1], ovl)])

\* C8: chunk reconstruction.  For every document and every chunk_size and
\* overlap with 0 <= overlap < chunk_size, the first chunk followed by the
\* later chunks without their first `overlap` words is the document's word
\* sequence, and no chunk is empty.
C8_ChunkReconstruction ==
    cpc = "done" =>
        /\ Reconstruct(chunks, overlap) = Flatten(paragraphs)
        /\ \A i \in 1..Len(chunks) : chunks[i] # <<>>

-----------------------------------------------------------------------------
(* Properties of the chunk cache.                                          *)

\* C1: cache idempotence.  A second call with no file change since the
\* first returns the same flattened chunk list, re-chunks no file (also
\* not one whose text is empty) and writes nothing to the store.
C1_CacheIdempotence ==
    (calls >= 2 /\ quiet) =>
        /\ all_chunks = prev_chunks
        /\ rechunked = {}
        /\ ~updated

\* C2: cache invalidation.  Right after a call that follows another one, a
\* file written in between (content and modification time changed) has as
\* its record's chunks the chunker's output on the new content, num_chunks
\* their number and last_modified the new modification time; a file whose
\* modification time did not change keeps the chunk list it had.
C2_CacheInvalidation ==
    (calls >= 2 /\ ~dirty) =>
        \A k \in Files :
            /\ (k \in seen_written /\ fs[k].exists) =>
                   /\ library[k]["chunks"] =
                          ChunkText(Docs[fs[k].doc], DEFAULT_CHUNK_SIZE,
                                    DEFAULT_OVERLAP)
                   /\ library[k]["num_chunks"] = Len(library[k]["chunks"])
                   /\ library[k]["last_modified"] = fs[k].mtime
            /\ (k \notin seen_written /\ "chunks" \in DOMAIN prev_library[k]) =>
                   library[k]["chunks"] = prev_library[k]["chunks"]

\* a file written between two calls got a different chunk list, of two
\* chunks, while the other kept its own
C2_Witness ==
    /\ calls >= 2
    /\ ~dirty
    /\ \E k \in seen_written, k2 \in Files \ seen_written :
           /\ fs[k].exists
           /\ "chunks" \in DOMAIN prev_library[k]
           /\ prev_library[k]["chunks"] # <<>>
           /\ library[k]["chunks"] # prev_library[k]["chunks"]
           /\ Len(library[k]["chunks"]) = 2
           /\ "chunks" \in DOMAIN prev_library[k2]
           /\ prev_library[k2]["chunks"] # <<>>

\* C3: persist-iff-updated.  A call that changed some record wrote the
\* store, so after every call, whatever changed in the files before it,
\* the store equals the record mapping the call returned.
C3_PersistIffUpdated ==
    calls >= 1 =>
        /\ (library # prev_library) => updated
        /\ store = library

\* the (chunk, file) pairs of the records of the files that exist, in
\* library key order
RECURSIVE SnapshotFrom(_)
SnapshotFrom(i) ==
    IF i > Len(LibraryKeys) THEN <<>>
    ELSE LET k == LibraryKeys[i] IN
         (IF fs[k].exists /\ "chunks" \in DOMAIN library[k]
          THEN [j \in 1..Len(library[k]["chunks"]) |->
                   <<library[k]["chunks"][j], k>>]
          ELSE <<>>) \o SnapshotFrom(i + 1)

\* C7: snapshot alignment.  Right after a call the two returned lists have
\* the same length and entry i of the sources is the path of the file
\* whose record holds entry i of the chunks, the chunks grouped by file in
\* library key order; a file that does not exist has no entry.
C7_SnapshotAlignment ==
    (calls >= 1 /\ ~dirty) =>
        LET snap == SnapshotFrom(1) IN
        /\ Len(all_chunks) = Len(all_sources)
        /\ Len(all_chunks) = Len(snap)
        /\ \A i \in 1..Len(snap) :
               /\ all_chunks[i] = snap[i][1]
               /\ all_sources[i].file = snap[i][2]

\* a snapshot of three chunks from two files
C7_Witness ==
    /\ calls >= 1
    /\ ~dirty
    /\ Len(all_chunks) = 3
    /\ all_sources[1].file # all_sources[3].file

-----------------------------------------------------------------------------
(* Properties of the ranker.                                               *)

RatEq(a, b) == a[1] * b[2] = b[1] * a[2]

\* index i comes before index j in the stable descending sort
StableBefore(scores, i, j) ==
    \/ RatLess(scores[j], scores[i])
    \/ RatEq(scores[i], scores[j]) /\ i < j

\* C4: ranking order.  A search returns min(max_results, n) tuples, those
\* of the first indices of the stable descending sort by combined score:
\* the scores do not increase along the list and, of two chunks with the
\* same score, the one with the smaller snapshot index comes first.
C4_RankingOrder ==
    rpc = "searched" =>
        /\ Len(results) = Min2(max_results, Len(documents))
        /\ \A r \in 1..(Len(ranked_indices) - 1) :
               StableBefore(combined_scores, ranked_indices[r],
                            ranked_indices[r + 1])
        /\ \A i \in DOMAIN documents :
               (\A r \in 1..Len(ranked_indices) : ranked_indices[r] # i) =>
                   \A r \in 1..Len(ranked_indices) :
                       StableBefore(combined_scores, ranked_indices[r], i)

\* C5: empty corpus.  With no chunk and no source path, neither building
\* the indices nor searching ends in an error, and a search returns the
\* empty list.
C5_EmptyCorpus ==
    (rpc # "none" /\ documents = <<>> /\ doc_paths = <<>>) =>
        /\ rpc \notin {"build_error", "search_error"}
        /\ results = <<>>

\* C6: build-time alignment guard.  A chunk list and a source-path list of
\* different lengths are rejected when the indices are built: no index is
\* ever built over them and no search runs against them.
C6_BuildTimeGuard ==
    Len(documents) # Len(doc_paths) => rpc \in {"none", "build_error"}

AllZero(v) == \A i \in DOMAIN v : v[i] = 0

InUnit(q) == 0 <= q[1] /\ q[1] <= q[2]

Bounded(raw, divisor, norm) ==
    /\ divisor # 0
    /\ AllZero(raw) => \A i \in DOMAIN norm : norm[i][1] = 0
    /\ ~AllZero(raw) => \A i \in DOMAIN norm : InUnit(norm[i])

\* C9: normalization boundedness.  Each raw vector is divided by its
\* maximum, or by 1 when the maximum is not positive; an all-zero vector
\* stays all-zero, nothing is divided by zero, and every other vector the
\* indices produce is normalized into [0, 1].
C9_NormalizationBounded ==
    rpc = "searched" =>
        /\ Bounded(tfidf_similarities, max_tfidf, tfidf_norm)
        /\ Bounded(bm25_scores, max_bm25, bm25_norm)


-----------------------------------------------------------------------------
(* Properties of the feedback controller.                                  *)

\* C10: feedback loop ordering.  A finished run has made exactly six
\* calls, in this order: query expansion, search with the expanded query,
\* answer generation from the first search's chunks, keyword extraction
\* from the first answer, search with the joined keywords, answer
\* generation from the second search's chunks; each collaborator's
\* output, empty or a failure string included, is what the next call is
\* given; and the returned value holds the final answer and both passes'
\* (chunk, source, lexical score) tuples.
C10_FeedbackLoopOrdering ==
    lpc = "done" =>
        /\ [i \in 1..Len(trace) |-> trace[i].op] =
               <<"expand", "search", "answer", "keywords", "search",
                 "answer">>
        /\ trace[1].arg = <<query, previous_queries>>
        /\ trace[2].arg = expanded_query
        /\ trace[3].arg = <<query, DocsOf(initial_results),
                            ScoresOf(initial_results), search_web>>
        /\ trace[4].arg = first_answer
        /\ trace[5].arg = JoinTexts(keywords)
        /\ trace[6].arg = <<query, DocsOf(refined_results),
                            ScoresOf(refined_results), search_web>>
        /\ ret.final_answer = final_answer
        /\ ret.initial_sources = SourcesFor(initial_results)
        /\ ret.refined_sources = SourcesFor(refined_results)

\* a finished run whose expansion was empty, whose first answer was the
\* failure string and whose keyword search found two chunks
C10_Witness ==
    /\ lpc = "done"
    /\ expanded_query = <<>>
    /\ trace[2].arg = <<>>
    /\ first_answer = ErrorText
    /\ trace[4].arg = ErrorText
    /\ Len(keywords) = 2
    /\ trace[5].arg = <<1, SP, 2>>
    /\ Len(ret.refined_sources) = 2

=============================================================================
